---- MODULE Spec2Model ----
(***************************************************************************)
(* CanStackGenerator (source/lib/canstackgenerator.{h,cpp}): the generator  *)
(* of a triangular stack of item matrices, as a state machine.  One action  *)
(* per public method; the private ResizeStack and the helpers are operators.*)
(*                                                                         *)
(* Float values are modelled as exact fractions [n, d]; a zero denominator  *)
(* stands for the IEEE-754 specials: 1/0 = +Inf, -1/0 = -Inf, 0/0 = NaN.    *)
(* Rounding is not modelled.  A Matrix is modelled by the values that       *)
(* determine it (heading, offsets, and in spline mode the spline and the    *)
(* uniform offset handed to SplineLengthData::UniformToNatural).            *)
(***************************************************************************)
EXTENDS Integers, Sequences, FiniteSets, TLC

\* ---------------------------------------------------------------- bounds
\* Largest _baseCount and _rowCount the callers pass.
MaxBase == 2

\* ---------------------------------------------------------------- Float
RECURSIVE Gcd(_, _)
Gcd(a, b) == IF b = 0 THEN a ELSE Gcd(b, a % b)

Abs(a) == IF a < 0 THEN -a ELSE a

Sgn(a) == IF a < 0 THEN -1 ELSE IF a > 0 THEN 1 ELSE 0

\* The Float n/d in lowest terms with d >= 0 (d = 0: Inf, -Inf or NaN).
Float(n, d) ==
    IF d = 0 THEN [n |-> Sgn(n), d |-> 0]
    ELSE LET g == Gcd(Abs(n), Abs(d))
             s == Sgn(d)
         IN  [n |-> (s * n) \div g, d |-> (s * d) \div g]

\* (Float) of an integer.
ToFloat(i) == [n |-> i, d |-> 1]

\* The literal 0.5.
Half == [n |-> 1, d |-> 2]

FMul(a, b) == Float(a.n * b.n, a.d * b.d)

FDiv(a, b) == Float(a.n * b.d, a.d * b.n)

FAdd(a, b) ==
    IF a.d = 0 /\ b.d = 0
    THEN (IF a.n = b.n THEN a ELSE [n |-> 0, d |-> 0])
    ELSE Float(a.n * b.d + b.n * a.d, a.d * b.d)

IsFinite(a) == a.d # 0

\* ---------------------------------------------------------------- parameters
\* nullptr
NoPath == "nullptr"

\* The SplineObjects a caller may pass as _basePath.
Splines == {"spline"}

\* StackParameters(): the default constructor.
DefaultParameters ==
    [ _baseCount |-> 0, _baseLength |-> 0, _rowCount |-> 0, _rowHeight |-> 0,
      _randomSeed |-> 0, _randomRot |-> 0, _randomOffX |-> 0, _randomOffZ |-> 0,
      _basePath |-> NoPath ]

\* Values of (_baseLength, _rowHeight, _randomSeed, _randomRot, _randomOffX,
\* _randomOffZ) the callers pass: without and with random offsets.
Styles == { <<30, 10, 0, 0, 0, 0>>, <<30, 10, 1, 1, 1, 1>> }

\* The defaults StackObject::Init sets (ostack.cpp:52-60) with the length and
\* height of the styles: a base of 3 items, 3 rows, no offsets, no spline.
ObjectParameters ==
    [ _baseCount |-> 3, _baseLength |-> 30, _rowCount |-> 3, _rowHeight |-> 10,
      _randomSeed |-> 0, _randomRot |-> 0, _randomOffX |-> 0, _randomOffZ |-> 0,
      _basePath |-> NoPath ]

\* Every StackParameters value a caller passes to InitStack: a
\* default-constructed one, the object's defaults, and the values built field
\* by field.
StackParameters ==
    {DefaultParameters, ObjectParameters} \cup
    { [ _baseCount |-> bc, _baseLength |-> st[1], _rowCount |-> rc, _rowHeight |-> st[2],
        _randomSeed |-> st[3], _randomRot |-> st[4], _randomOffX |-> st[5],
        _randomOffZ |-> st[6], _basePath |-> bp ] :
      bc \in 0..MaxBase, rc \in 0..MaxBase, st \in Styles, bp \in Splines \cup {NoPath} }

\* operator == (const StackParameters&, const StackParameters&): _basePath is
\* not compared.  The two offsets read by GenerateStack stand where the header
\* compares _randomPos.
ParamsEqual(x1, x2) ==
    /\ x1._baseCount = x2._baseCount
    /\ x1._baseLength = x2._baseLength
    /\ x1._rowCount = x2._rowCount
    /\ x1._rowHeight = x2._rowHeight
    /\ x1._randomSeed = x2._randomSeed
    /\ x1._randomOffX = x2._randomOffX
    /\ x1._randomOffZ = x2._randomOffZ
    /\ x1._randomRot = x2._randomRot

\* ---------------------------------------------------------------- Random
\* Random::Init(seed): the state of the stream of the seed.
RandomInit(seed) == seed % 4

\* Random::Get11(): the state after the draw, and the value drawn (one of
\* -1, 0, 1 of the range [-1, 1]).
RandomNext(s) == (5 * s + 3) % 4

Get11(s) == (RandomNext(s) % 3) - 1

\* ---------------------------------------------------------------- the arrays
\* A default-constructed item: the identity matrix.
DefaultItem ==
    [ path |-> NoPath, h |-> ToFloat(0), x |-> ToFloat(0), y |-> ToFloat(0),
      z |-> ToFloat(0), u |-> ToFloat(0) ]

Min(a, b) == IF a < b THEN a ELSE b

\* BaseArray::Resize(n): keeps the first n elements, appends default ones.
Resize(arr, n, dflt) ==
    [ k \in 1..n |-> IF k <= Len(arr) THEN arr[k] ELSE dflt ]

\* No allocation fails.
NoFail == -1

\* The allocation that fails during one ResizeStack: none, 0 for the Resize
\* of the stack, r + 1 for the Resize of row r.  Only a Resize that grows its
\* array allocates.
FailPoints(arr, baseCount, rowCount) ==
    LET n == Min(baseCount, rowCount)
    IN  {NoFail}
        \cup (IF n > Len(arr) THEN {0} ELSE {})
        \cup { r + 1 : r \in { q \in 0..(n - 1) :
                    baseCount - q > (IF q < Len(arr) THEN Len(arr[q + 1]) ELSE 0) } }

\* ResizeRows with every row sized like the base row.
RECURSIVE ResizeRowsAllBase(_, _, _, _, _)
ResizeRowsAllBase(arr, paramsBaseCount, rowCount, rowIndex, failAt) ==
    IF ~(rowIndex < Len(arr) /\ rowIndex < rowCount)
    THEN [ok |-> TRUE, array |-> arr]
    ELSE LET size == paramsBaseCount
             row  == arr[rowIndex + 1]
         IN  IF failAt = rowIndex + 1 /\ size > Len(row)
             THEN [ok |-> FALSE, array |-> arr]
             ELSE ResizeRowsAllBase([arr EXCEPT ![rowIndex + 1] = Resize(row, size, DefaultItem)],
                                    paramsBaseCount, rowCount, rowIndex + 1, failAt)

\* The row loop of ResizeStack from row rowIndex on.
RECURSIVE ResizeRows(_, _, _, _, _)
ResizeRows(arr, paramsBaseCount, rowCount, rowIndex, failAt) ==
    IF ~(rowIndex < Len(arr) /\ rowIndex < rowCount)
    THEN [ok |-> TRUE, array |-> arr]
    ELSE LET size == paramsBaseCount - rowIndex
             row  == arr[rowIndex + 1]
         IN  IF failAt = rowIndex + 1 /\ size > Len(row)
             THEN [ok |-> FALSE, array |-> arr]
             ELSE ResizeRows([arr EXCEPT ![rowIndex + 1] = Resize(row, size, DefaultItem)],
                             paramsBaseCount, rowCount, rowIndex + 1, failAt)

\* ResizeStack with the stack resized to rowCount rows, not to
\* Min(baseCount, rowCount).
ResizeStackNoMin(arr, paramsBaseCount, baseCount, rowCount, failAt) ==
    IF failAt = 0 /\ rowCount > Len(arr)
    THEN [ok |-> FALSE, array |-> arr]
    ELSE ResizeRows(Resize(arr, rowCount, <<>>), paramsBaseCount, rowCount, 0, failAt)

\* CanStackGenerator::ResizeStack(baseCount, rowCount), rows sized from
\* _params._baseCount.
ResizeStack(arr, paramsBaseCount, baseCount, rowCount, failAt) ==
    LET n == Min(baseCount, rowCount)
    IN  IF failAt = 0 /\ n > Len(arr)
        THEN [ok |-> FALSE, array |-> arr]
        ELSE ResizeRows(Resize(arr, n, <<>>), paramsBaseCount, rowCount, 0, failAt)

\* ---------------------------------------------------------------- InitStack
\* InitStack with _baseCount checked before the members are reset.
InitStackOpCheckFirst(g, params, failAt) ==
    LET seeded == [g EXCEPT !.random = RandomInit(params._randomSeed)]
    IN  IF ParamsEqual(params, g.params)
        THEN [ret |-> TRUE, g |-> seeded]
        ELSE IF params._baseCount < 1
        THEN [ret |-> FALSE, g |-> seeded]
        ELSE LET rs == ResizeStack(g.array, params._baseCount, params._baseCount,
                                   params._rowCount, failAt)
             IN  [ret |-> rs.ok,
                  g |-> [seeded EXCEPT !.params = params, !.initialized = rs.ok,
                                       !.array = rs.array]]

\* InitStack with _random initialized after the comparison of the params.
InitStackOpSeedLate(g, params, failAt) ==
    LET seeded == [g EXCEPT !.random = RandomInit(params._randomSeed)]
    IN  IF ParamsEqual(params, g.params)
        THEN [ret |-> TRUE, g |-> g]
        ELSE IF params._baseCount < 1
        THEN [ret |-> FALSE,
              g |-> [seeded EXCEPT !.params = DefaultParameters, !.initialized = FALSE]]
        ELSE LET rs == ResizeStack(g.array, params._baseCount, params._baseCount,
                                   params._rowCount, failAt)
             IN  [ret |-> rs.ok,
                  g |-> [seeded EXCEPT !.params = params, !.initialized = rs.ok,
                                       !.array = rs.array]]

\* CanStackGenerator::InitStack(params) on the generator g.
InitStackOp(g, params, failAt) ==
    LET seeded == [g EXCEPT !.random = RandomInit(params._randomSeed)]
    IN  IF ParamsEqual(params, g.params)
        THEN [ret |-> TRUE, g |-> seeded]
        ELSE IF params._baseCount < 1
        THEN [ret |-> FALSE,
              g |-> [seeded EXCEPT !.params = DefaultParameters, !.initialized = FALSE]]
        ELSE LET rs == ResizeStack(g.array, params._baseCount, params._baseCount,
                                   params._rowCount, failAt)
             IN  [ret |-> rs.ok,
                  g |-> [seeded EXCEPT !.params = params, !.initialized = rs.ok,
                                       !.array = rs.array]]

\* ---------------------------------------------------------------- GenerateStack
\* The matrix of item itemIndex of row rowIndex without a path spline
\* (canstackgenerator.cpp:80-81, 106).  d1, d2, d3 are the three Get11() draws
\* in the order they are taken; order tells which of the two draws of line 106
\* (arguments of one constructor call) is evaluated first.
StraightItem(p, distance, rowIndex, itemIndex, d1, d2, d3, order) ==
    LET dx == IF order = "xz" THEN d2 ELSE d3
        dz == IF order = "xz" THEN d3 ELSE d2
    IN  [ path |-> NoPath,
          h |-> FMul(ToFloat(d1), ToFloat(p._randomRot)),
          x |-> FMul(ToFloat(dx), ToFloat(p._randomOffX)),
          y |-> FMul(ToFloat(p._rowHeight), ToFloat(rowIndex)),
          z |-> FAdd(FAdd(FMul(distance, ToFloat(itemIndex)),
                          FMul(FMul(distance, ToFloat(rowIndex)), Half)),
                     FMul(ToFloat(dz), ToFloat(p._randomOffZ))),
          u |-> ToFloat(0) ]

\* SplineItem with the items counted from 1 along the spline.
SplineItemOneBased(p, relDistance, rowIndex, itemIndex, d1, d2, d3) ==
    [ path |-> p._basePath,
      h |-> FMul(ToFloat(d1), ToFloat(p._randomRot)),
      x |-> FMul(ToFloat(d2), ToFloat(p._randomOffX)),
      y |-> FMul(ToFloat(p._rowHeight), ToFloat(rowIndex)),
      z |-> FMul(ToFloat(d3), ToFloat(p._randomOffZ)),
      u |-> FAdd(FMul(relDistance, ToFloat(itemIndex + 1)),
                 FMul(FMul(relDistance, Half), ToFloat(rowIndex))) ]

\* The matrix of an item on a path spline (canstackgenerator.cpp:80-81,
\* 87-101): u is the argument of UniformToNatural, y the offset in Y, x and z
\* the offsets along the cross tangent and the tangent.
SplineItem(p, relDistance, rowIndex, itemIndex, d1, d2, d3) ==
    [ path |-> p._basePath,
      h |-> FMul(ToFloat(d1), ToFloat(p._randomRot)),
      x |-> FMul(ToFloat(d2), ToFloat(p._randomOffX)),
      y |-> FMul(ToFloat(p._rowHeight), ToFloat(rowIndex)),
      z |-> FMul(ToFloat(d3), ToFloat(p._randomOffZ)),
      u |-> FAdd(FMul(relDistance, ToFloat(itemIndex)),
                 FMul(FMul(relDistance, Half), ToFloat(rowIndex))) ]

\* GenerateItem that takes no draw for the rotation when _randomRot is 0.
GenerateItemLazyHeading(p, distance, relDistance, rowIndex, itemIndex, rnd, order) ==
    LET s0 == IF p._randomRot = 0 THEN rnd ELSE RandomNext(rnd)
        s1 == RandomNext(s0)
        s2 == RandomNext(s1)
        d1 == Get11(rnd)
        d2 == Get11(s0)
        d3 == Get11(s1)
    IN  [ random |-> s2,
          item |-> IF p._basePath # NoPath
                   THEN SplineItem(p, relDistance, rowIndex, itemIndex, d1, d2, d3)
                   ELSE StraightItem(p, distance, rowIndex, itemIndex, d1, d2, d3, order) ]

\* One pass of the loop body (canstackgenerator.cpp:79-107).
GenerateItem(p, distance, relDistance, rowIndex, itemIndex, rnd, order) ==
    LET s1 == RandomNext(rnd)
        s2 == RandomNext(s1)
        s3 == RandomNext(s2)
        d1 == Get11(rnd)
        d2 == Get11(s1)
        d3 == Get11(s2)
    IN  [ random |-> s3,
          item |-> IF p._basePath # NoPath
                   THEN SplineItem(p, relDistance, rowIndex, itemIndex, d1, d2, d3)
                   ELSE StraightItem(p, distance, rowIndex, itemIndex, d1, d2, d3, order) ]

\* The inner loop (canstackgenerator.cpp:76-108) from item itemIndex on.
RECURSIVE GenerateRow(_, _, _, _, _, _, _, _)
GenerateRow(row, p, distance, relDistance, rowIndex, itemIndex, rnd, order) ==
    IF itemIndex >= Len(row)
    THEN [row |-> row, random |-> rnd]
    ELSE LET it == GenerateItem(p, distance, relDistance, rowIndex, itemIndex, rnd, order)
         IN  GenerateRow([row EXCEPT ![itemIndex + 1] = it.item], p, distance,
                         relDistance, rowIndex, itemIndex + 1, it.random, order)

\* The outer loop (canstackgenerator.cpp:71-109) from row rowIndex on.
RECURSIVE GenerateRows(_, _, _, _, _, _, _)
GenerateRows(arr, p, distance, relDistance, rowIndex, rnd, order) ==
    IF rowIndex >= Len(arr)
    THEN [array |-> arr, random |-> rnd]
    ELSE LET r == GenerateRow(arr[rowIndex + 1], p, distance, relDistance, rowIndex,
                              0, rnd, order)
         IN  GenerateRows([arr EXCEPT ![rowIndex + 1] = r.row], p, distance,
                          relDistance, rowIndex + 1, r.random, order)

\* distance as the length over the gaps between the items of the base row.
DistanceOverGaps(p) ==
    IF p._basePath # NoPath THEN ToFloat(0)
    ELSE FDiv(ToFloat(p._baseLength), ToFloat(p._baseCount - 1))

\* Float distance(0.0), relDistance(0.0) and their assignments
\* (canstackgenerator.cpp:40-41, 62, 67).
Distance(p) ==
    IF p._basePath # NoPath THEN ToFloat(0)
    ELSE FDiv(ToFloat(p._baseLength), ToFloat(p._baseCount))

RelDistance(p) ==
    IF p._basePath # NoPath THEN FDiv(ToFloat(1), ToFloat(p._baseCount - 1))
    ELSE ToFloat(0)

\* GenerateStack without the check of _initialized.
GenerateStackOpNoCheck(g, order, allocOk, initOk) ==
    IF g.params._basePath # NoPath /\ ~g.sld /\ ~allocOk
    THEN [ret |-> FALSE, g |-> g]
    ELSE IF g.params._basePath # NoPath /\ ~initOk
    THEN [ret |-> FALSE, g |-> [g EXCEPT !.sld = TRUE]]
    ELSE LET r == GenerateRows(g.array, g.params, Distance(g.params),
                               RelDistance(g.params), 0, g.random, order)
         IN  [ret |-> TRUE,
              g |-> [g EXCEPT !.array = r.array, !.random = r.random,
                              !.sld = (g.sld \/ g.params._basePath # NoPath)]]

\* GenerateStack() that seeds the random generator anew before the loops.
GenerateStackOpReseed(g, order, allocOk, initOk) ==
    IF ~g.initialized
    THEN [ret |-> FALSE, g |-> g]
    ELSE IF g.params._basePath # NoPath /\ ~g.sld /\ ~allocOk
    THEN [ret |-> FALSE, g |-> g]
    ELSE IF g.params._basePath # NoPath /\ ~initOk
    THEN [ret |-> FALSE, g |-> [g EXCEPT !.sld = TRUE]]
    ELSE LET r == GenerateRows(g.array, g.params, Distance(g.params),
                               RelDistance(g.params), 0,
                               RandomInit(g.params._randomSeed), order)
         IN  [ret |-> TRUE,
              g |-> [g EXCEPT !.array = r.array, !.random = r.random,
                              !.sld = (g.sld \/ g.params._basePath # NoPath)]]

\* GenerateStack() that initialises the spline length data after the loops.
GenerateStackOpInitLate(g, order, allocOk, initOk) ==
    IF ~g.initialized
    THEN [ret |-> FALSE, g |-> g]
    ELSE IF g.params._basePath # NoPath /\ ~g.sld /\ ~allocOk
    THEN [ret |-> FALSE, g |-> g]
    ELSE LET r == GenerateRows(g.array, g.params, Distance(g.params),
                               RelDistance(g.params), 0, g.random, order)
         IN  [ret |-> ~(g.params._basePath # NoPath /\ ~initOk),
              g |-> [g EXCEPT !.array = r.array, !.random = r.random,
                              !.sld = (g.sld \/ g.params._basePath # NoPath)]]

\* GenerateStack() that frees the spline length data when no path spline is
\* stored.
GenerateStackOpFreeCache(g, order, allocOk, initOk) ==
    IF ~g.initialized
    THEN [ret |-> FALSE, g |-> g]
    ELSE IF g.params._basePath # NoPath /\ ~g.sld /\ ~allocOk
    THEN [ret |-> FALSE, g |-> g]
    ELSE IF g.params._basePath # NoPath /\ ~initOk
    THEN [ret |-> FALSE, g |-> [g EXCEPT !.sld = TRUE]]
    ELSE LET r == GenerateRows(g.array, g.params, Distance(g.params),
                               RelDistance(g.params), 0, g.random, order)
         IN  [ret |-> TRUE,
              g |-> [g EXCEPT !.array = r.array, !.random = r.random,
                              !.sld = (g.params._basePath # NoPath)]]

\* CanStackGenerator::GenerateStack() on the generator g.  allocOk and initOk
\* are the outcomes of SplineLengthData::Alloc() and SplineLengthData::Init();
\* g.sld tells whether _splineLengthData holds an object.
GenerateStackOp(g, order, allocOk, initOk) ==
    IF ~g.initialized
    THEN [ret |-> FALSE, g |-> g]
    ELSE IF g.params._basePath # NoPath /\ ~g.sld /\ ~allocOk
    THEN [ret |-> FALSE, g |-> g]
    ELSE IF g.params._basePath # NoPath /\ ~initOk
    THEN [ret |-> FALSE, g |-> [g EXCEPT !.sld = TRUE]]
    ELSE LET r == GenerateRows(g.array, g.params, Distance(g.params),
                               RelDistance(g.params), 0, g.random, order)
         IN  [ret |-> TRUE,
              g |-> [g EXCEPT !.array = r.array, !.random = r.random,
                              !.sld = (g.sld \/ g.params._basePath # NoPath)]]

\* ---------------------------------------------------------------- BuildStackGeometry
\* The number of items of the stack arr.
RECURSIVE ItemCount(_)
ItemCount(arr) ==
    IF arr = <<>> THEN 0 ELSE Len(Head(arr)) + ItemCount(Tail(arr))

\* nullptr (no object)
NoObject == "nullptr"

\* The originalObject values a caller passes: a plain object, a render
\* instance of another object, a render instance with an empty link, and an
\* instance that is no render instance.
OriginalObjects ==
    { [name |-> "child",    type |-> "Opolygon",  renderInstance |-> FALSE, link |-> NoObject],
      [name |-> "instance", type |-> "Oinstance", renderInstance |-> TRUE,  link |-> "linked"],
      [name |-> "instance", type |-> "Oinstance", renderInstance |-> TRUE,  link |-> NoObject],
      [name |-> "instance", type |-> "Oinstance", renderInstance |-> FALSE, link |-> "linked"] }

\* objectToClone (canstackgenerator.cpp:122-128).
ObjectToClone(originalObject) ==
    IF originalObject.type = "Oinstance" /\ originalObject.renderInstance
    THEN originalObject.link
    ELSE originalObject.name

\* The items of the stack in the order of the two loops
\* (canstackgenerator.cpp:147-150).
RECURSIVE ItemsInOrder(_)
ItemsInOrder(arr) ==
    IF arr = <<>> THEN <<>> ELSE Head(arr) \o ItemsInOrder(Tail(arr))

\* BuildItems with every instance linked to the item made just before it.
RECURSIVE BuildItemsLinkPrevious(_, _, _, _, _, _, _, _)
BuildItemsLinkPrevious(items, p, objectToClone, useRenderInstances, newItemCount, firstItem, children, failAt) ==
    IF newItemCount >= Len(items)
    THEN [ret |-> TRUE, children |-> children]
    ELSE IF failAt = newItemCount + 1
    THEN [ret |-> FALSE, children |-> <<>>]
    ELSE LET item   == items[newItemCount + 1]
             asInst == useRenderInstances /\ newItemCount > 0
             child  == [ kind |-> IF asInst THEN "instance" ELSE "clone",
                         of   |-> IF asInst THEN NoObject ELSE objectToClone,
                         link |-> IF asInst THEN newItemCount ELSE 0,
                         set  |-> IF p._basePath # NoPath THEN "SetMg" ELSE "SetMl",
                         inverted |-> p._basePath # NoPath,
                         mg   |-> item ]
         IN  BuildItemsLinkPrevious(items, p, objectToClone, useRenderInstances,
                                    newItemCount + 1, firstItem,
                                    Append(children, child), failAt)

\* One pass of the loop body (canstackgenerator.cpp:152-188) for the item
\* items[newItemCount + 1] and the rest of the loops.  firstItem is the place
\* among the children of the last clone made (0: nullptr); failAt is the
\* allocation that fails (item k's is k).
RECURSIVE BuildItems(_, _, _, _, _, _, _, _)
BuildItems(items, p, objectToClone, useRenderInstances, newItemCount, firstItem, children, failAt) ==
    IF newItemCount >= Len(items)
    THEN [ret |-> TRUE, children |-> children]
    ELSE IF failAt = newItemCount + 1
    THEN [ret |-> FALSE, children |-> <<>>]
    ELSE LET item   == items[newItemCount + 1]
             asInst == useRenderInstances /\ newItemCount > 0
             child  == [ kind |-> IF asInst THEN "instance" ELSE "clone",
                         of   |-> IF asInst THEN NoObject ELSE objectToClone,
                         link |-> IF asInst THEN firstItem ELSE 0,
                         set  |-> IF p._basePath # NoPath THEN "SetMg" ELSE "SetMl",
                         inverted |-> p._basePath # NoPath,
                         mg   |-> item ]
         IN  BuildItems(items, p, objectToClone, useRenderInstances, newItemCount + 1,
                        IF asInst THEN firstItem ELSE newItemCount + 1,
                        Append(children, child), failAt)

\* The allocations of one BuildStackGeometry call that may fail: none, 0
\* for the parent Null, k for item k.
BuildFailPoints(arr) == {NoFail} \cup (0..ItemCount(arr))

\* CanStackGenerator::BuildStackGeometry(originalObject, mg,
\* useRenderInstances) on the generator g: ret tells whether an object is
\* returned, children are its children in order.
BuildStackGeometryOp(g, originalObject, useRenderInstances, failAt) ==
    IF failAt = 0
    THEN [ret |-> FALSE, children |-> <<>>]
    ELSE IF ObjectToClone(originalObject) = NoObject
    THEN [ret |-> FALSE, children |-> <<>>]
    ELSE BuildItems(ItemsInOrder(g.array), g.params, ObjectToClone(originalObject),
                    useRenderInstances, 0, 0, <<>>, failAt)

\* ---------------------------------------------------------------- the state
VARIABLES
    _params,            \* StackParameters _params
    _initialized,       \* Bool _initialized
    _array,             \* StackRowArray _array
    _random,            \* Random _random
    _splineLengthData,  \* AutoFree<SplineLengthData> _splineLengthData holds an object
    argOrder,           \* the build's evaluation order of the arguments of line 106
    op,                 \* the last method called
    ret,                \* what it returned
    arg,                \* the params of an InitStack call that returned true
    same,               \* InitStack: params was the stored _params, _basePath included
    everOk,             \* some InitStack call has returned true
    built,              \* the children of the object a BuildStackGeometry call returned
    buildArg            \* the originalObject and useRenderInstances of that call

vars == << _params, _initialized, _array, _random, _splineLengthData, argOrder,
           op, ret, arg, same, everOk, built, buildArg >>

\* No BuildStackGeometry call has just returned an object.
NoBuildArg ==
    [ originalObject |-> [name |-> NoObject, type |-> NoObject,
                          renderInstance |-> FALSE, link |-> NoObject],
      useRenderInstances |-> FALSE ]

\* The generator as one value.
Generator ==
    [ params |-> _params, initialized |-> _initialized, array |-> _array,
      random |-> _random, sld |-> _splineLengthData ]

\* A CanStackGenerator member of a StackObject made by NewObjClear: the
\* members' default constructors on cleared memory.
FreshGenerator ==
    [ params |-> DefaultParameters, initialized |-> FALSE, array |-> <<>>,
      random |-> 0, sld |-> FALSE ]

SetGenerator(g) ==
    /\ _params' = g.params
    /\ _initialized' = g.initialized
    /\ _array' = g.array
    /\ _random' = g.random
    /\ _splineLengthData' = g.sld

Init ==
    /\ _params = FreshGenerator.params
    /\ _initialized = FreshGenerator.initialized
    /\ _array = FreshGenerator.array
    /\ _random = FreshGenerator.random
    /\ _splineLengthData = FreshGenerator.sld
    /\ argOrder \in {"xz", "zx"}
    /\ op = "none"
    /\ ret = FALSE
    /\ arg = DefaultParameters
    /\ same = FALSE
    /\ everOk = FALSE
    /\ built = <<>>
    /\ buildArg = NoBuildArg

\* A call of InitStack(params) with params of the set parameters.
InitStackFrom(parameters) ==
    \E params \in parameters :
      \E failAt \in FailPoints(_array, params._baseCount, params._rowCount) :
        \E r \in {InitStackOp(Generator, params, failAt)} :
            /\ SetGenerator(r.g)
            /\ op' = "InitStack"
            /\ ret' = r.ret
            /\ arg' = IF r.ret THEN params ELSE DefaultParameters
            /\ same' = (params = _params)
            /\ everOk' = (everOk \/ r.ret)
            /\ built' = <<>>
            /\ buildArg' = NoBuildArg
            /\ UNCHANGED argOrder

\* A call of InitStack(params).
InitStack == InitStackFrom(StackParameters)

\* A call of GenerateStack().
GenerateStack ==
    \E allocOk \in BOOLEAN, initOk \in BOOLEAN :
        \E r \in {GenerateStackOp(Generator, argOrder, allocOk, initOk)} :
            /\ SetGenerator(r.g)
            /\ op' = "GenerateStack"
            /\ ret' = r.ret
            /\ arg' = DefaultParameters
            /\ same' = FALSE
            /\ built' = <<>>
            /\ buildArg' = NoBuildArg
            /\ UNCHANGED << argOrder, everOk >>

Next == InitStack \/ GenerateStack

Spec == Init /\ [][Next]_vars

\* A call of BuildStackGeometry(originalObject, mg, useRenderInstances).
BuildStackGeometry ==
    \E originalObject \in OriginalObjects, useRenderInstances \in BOOLEAN :
      \E failAt \in BuildFailPoints(_array) :
        \E r \in {BuildStackGeometryOp(Generator, originalObject, useRenderInstances, failAt)} :
            /\ op' = "BuildStackGeometry"
            /\ ret' = r.ret
            /\ built' = r.children
            /\ buildArg' = IF r.ret
                            THEN [originalObject |-> originalObject,
                                  useRenderInstances |-> useRenderInstances]
                            ELSE NoBuildArg
            /\ arg' = DefaultParameters
            /\ same' = FALSE
            /\ UNCHANGED << _params, _initialized, _array, _random, _splineLengthData,
                            argOrder, everOk >>

\* The params of the callers that use no random rotation or offset.
PlainParameters ==
    { p \in StackParameters : p._randomRot = 0 /\ p._randomOffX = 0 /\ p._randomOffZ = 0 }

\* InitStack with plain params.
InitStackPlain == InitStackFrom(PlainParameters)

\* The three methods called in any order, as StackObject::GetVirtualObjects
\* and other callers may.
NextBuild == InitStackPlain \/ GenerateStack \/ BuildStackGeometry

SpecBuild == Init /\ [][NextBuild]_vars

\* ---------------------------------------------------------------- properties
\* The (rowIndex, itemIndex) of the items of the stack arr.
Cells(arr) ==
    { c \in (0..(Len(arr) - 1)) \X (0..MaxBase + 1) : c[2] < Len(arr[c[1] + 1]) }

ItemAt(arr, c) == arr[c[1] + 1][c[2] + 1]

\* The stack a new generator holds after InitStack(params) and GenerateStack()
\* with no allocation failing.
FreshLayout(params, order) ==
    GenerateStackOp(InitStackOp(FreshGenerator, params, NoFail).g, order, TRUE, TRUE).g.array

\* C1: whenever _initialized is set, _array has Min(_baseCount, _rowCount)
\* rows of the stored _params and row r has _baseCount - r items, at least one.
C1_TriangularShape ==
    _initialized =>
        /\ Len(_array) = Min(_params._baseCount, _params._rowCount)
        /\ \A r \in 0..(Len(_array) - 1) :
              /\ Len(_array[r + 1]) = _params._baseCount - r
              /\ Len(_array[r + 1]) >= 1

\* A successful InitStack has shaped a stack of two rows or more.
C1_Witness ==
    /\ op = "InitStack" /\ ret /\ ~same
    /\ _initialized
    /\ Len(_array) >= 2

C3_RejectsBaseCountBelowOne ==
    (op = "InitStack" /\ ret) => arg._baseCount >= 1

\* The items of rows and places that both stacks have are the same.
SameCommonItems(a, b) ==
    \A c \in Cells(a) \cap Cells(b) : ItemAt(a, c) = ItemAt(b, c)

\* C4 as claimed: an InitStack call that returns false leaves _params,
\* _initialized and _array as they were.
C4_FailedInitKeepsState ==
    [][ (op' = "InitStack" /\ ~ret') =>
            (_params' = _params /\ _initialized' = _initialized /\ _array' = _array) ]_vars

\* C4 as amended: an InitStack call that returns false clears _initialized;
\* rejected for _baseCount < 1 it resets _params to the defaults and leaves
\* _array as it was; after a failed allocation it has stored the new _params
\* and every item that is still there is unchanged.
C4_FailedInitResets ==
    [][ (op' = "InitStack" /\ ~ret') =>
            /\ ~_initialized'
            /\ \/ _params' = DefaultParameters /\ _array' = _array
               \/ /\ _params'._baseCount >= 1
                  /\ ~ParamsEqual(_params', _params)
                  /\ SameCommonItems(_array, _array') ]_vars

\* An InitStack call was rejected for _baseCount < 1 while the generator
\* held a generated stack.
C4_Witness ==
    /\ op = "InitStack" /\ ~ret
    /\ _params = DefaultParameters /\ ~_initialized
    /\ \E c \in Cells(_array) : ItemAt(_array, c) # DefaultItem

\* C5: a GenerateStack that returns true right after an InitStack(params)
\* that returned true leaves the stack a new generator gets for the same
\* params, whatever was called before.
C5_SameLayoutAsFresh ==
    [][ (op = "InitStack" /\ ret /\ op' = "GenerateStack" /\ ret') =>
            _array' = FreshLayout(arg, argOrder) ]_vars

\* C6: after an InitStack(params) that returned true, _params is params in
\* every field, _basePath included.
C6_StoresEveryField ==
    (op = "InitStack" /\ ret) => _params = arg

\* C7: an InitStack call given the stored _params (every field equal)
\* returns true, leaves _params, _initialized, _array and _splineLengthData
\* as they were and leaves _random at the start of the stream of the seed; a
\* GenerateStack that returns true right after it leaves the stack a new
\* generator gets for these params.
C7_EqualInitOnlyReseeds ==
    [][ /\ (op' = "InitStack" /\ same') =>
              /\ ret'
              /\ _params' = _params
              /\ _initialized' = _initialized
              /\ _array' = _array
              /\ _splineLengthData' = _splineLengthData
              /\ _random' = RandomInit(_params._randomSeed)
        /\ (op = "InitStack" /\ same /\ op' = "GenerateStack" /\ ret') =>
              _array' = FreshLayout(_params, argOrder) ]_vars

\* InitStack was given the stored _params while the generator held a stack
\* generated with random offsets.
C7_Witness ==
    /\ op = "InitStack" /\ same /\ ret
    /\ _initialized
    /\ _params._randomRot # 0
    /\ \E c \in Cells(_array) : ItemAt(_array, c).h # ToFloat(0)

\* C8: while no InitStack call has returned true, and right after an
\* InitStack call that returned false, GenerateStack returns false and
\* leaves _array as it was.
C8_GenerateNeedsInit ==
    [][ (op' = "GenerateStack" /\ (~everOk \/ (op = "InitStack" /\ ~ret))) =>
            (~ret' /\ _array' = _array) ]_vars

\* GenerateStack was called on a generator whose only InitStack calls
\* failed, one of them after it had made rows.
C8_Witness ==
    /\ op = "GenerateStack" /\ ~ret
    /\ ~everOk
    /\ Len(_array) >= 1

\* C9: after a GenerateStack that returned true with no path spline and no
\* random rotation or offset stored, item (r, i) has no rotation and the
\* offset (0, _rowHeight * r, spacing * i + spacing * r / 2), spacing being
\* _baseLength / _baseCount.
C9_StraightPositions ==
    ( /\ op = "GenerateStack" /\ ret
      /\ _params._basePath = NoPath
      /\ _params._randomRot = 0 /\ _params._randomOffX = 0 /\ _params._randomOffZ = 0 ) =>
        \A c \in Cells(_array) :
            LET it == ItemAt(_array, c)
                r  == c[1]
                i  == c[2]
            IN  /\ it.path = NoPath
                /\ it.h = ToFloat(0)
                /\ it.x = ToFloat(0)
                /\ it.y = ToFloat(_params._rowHeight * r)
                /\ IsFinite(it.z)
                /\ it.z.n * 2 * _params._baseCount
                     = _params._baseLength * (2 * i + r) * it.z.d

\* The stack of _baseCount = 3, _rowCount = 3, _baseLength = 30,
\* _rowHeight = 10: rows of 3, 2 and 1 items at z = 0, 10, 20, at z = 5, 15
\* and at z = 10, and y = 0, 10, 20.
C9_Witness ==
    /\ op = "GenerateStack" /\ ret
    /\ _params = ObjectParameters
    /\ Len(_array) = 3
    /\ Len(_array[1]) = 3 /\ Len(_array[2]) = 2 /\ Len(_array[3]) = 1
    /\ _array[1][1].z = ToFloat(0) /\ _array[1][2].z = ToFloat(10)
    /\ _array[1][3].z = ToFloat(20)
    /\ _array[2][1].z = ToFloat(5) /\ _array[2][2].z = ToFloat(15)
    /\ _array[3][1].z = ToFloat(10)
    /\ _array[1][1].y = ToFloat(0) /\ _array[2][1].y = ToFloat(10)
    /\ _array[3][1].y = ToFloat(20)

\* C10: after a GenerateStack that returned true on a path spline, the first
\* item of the first row is at the uniform offset 0, for every _baseCount.
C10_FirstItemAtSplineStart ==
    ( /\ op = "GenerateStack" /\ ret
      /\ _params._basePath # NoPath
      /\ Len(_array) >= 1 ) =>
        _array[1][1].u = ToFloat(0)

\* ---------------------------------------------------------------- C11
\* The places among the children of the returned object of the clones and
\* of the render instances.
Clones == { k \in 1..Len(built) : built[k].kind = "clone" }

Instances == { k \in 1..Len(built) : built[k].kind = "instance" }

\* The object a clone must be a copy of: the object a render instance
\* links to, the original object otherwise.
ResolvedTemplate ==
    LET o == buildArg.originalObject
    IN  IF o.name = "child" THEN "child"
        ELSE IF o.renderInstance THEN "linked" ELSE "instance"

\* C11 as stated: a BuildStackGeometry call that returns an object for a
\* stack of N items gives N clones of the resolved template and no instance
\* when useRenderInstances is false, and exactly 1 clone (the first child)
\* and N - 1 render instances linked to it when useRenderInstances is true.
C11_OneCloneAndInstances ==
    (op = "BuildStackGeometry" /\ ret) =>
        /\ \A k \in Clones : built[k].of = ResolvedTemplate
        /\ IF buildArg.useRenderInstances
           THEN /\ Clones = {1}
                /\ Cardinality(Instances) = ItemCount(_array) - 1
                /\ \A k \in Instances : built[k].link = 1
           ELSE /\ Cardinality(Clones) = ItemCount(_array)
                /\ Instances = {}

\* C11 amended: the same for a stack of N >= 1 items; for a stack without
\* items the returned object has no children, whatever useRenderInstances is.
C11_ClonesAndInstances ==
    (op = "BuildStackGeometry" /\ ret) =>
        /\ \A k \in Clones : built[k].of = ResolvedTemplate
        /\ Len(built) = ItemCount(_array)
        /\ IF buildArg.useRenderInstances /\ ItemCount(_array) >= 1
           THEN /\ Clones = {1}
                /\ Cardinality(Instances) = ItemCount(_array) - 1
                /\ \A k \in Instances : built[k].link = 1
           ELSE /\ Cardinality(Clones) = ItemCount(_array)
                /\ Instances = {}

\* A stack of three items or more built with render instances from a
\* render instance.
C11_Witness ==
    /\ op = "BuildStackGeometry" /\ ret
    /\ buildArg.useRenderInstances
    /\ buildArg.originalObject.renderInstance
    /\ ItemCount(_array) >= 3
    /\ Cardinality(Instances) >= 2

\* ---------------------------------------------------------------- C12
\* C12: BuildStackGeometry handles an item in the mode the item was
\* generated in; here the half no build may miss: a matrix made on the path
\* spline (in global space) is multiplied with the inverted mg and set with
\* SetMg, never set as a local matrix.
C12_ModeOfStoredLayout ==
    (op = "BuildStackGeometry" /\ ret) =>
        \A k \in 1..Len(built) :
            built[k].mg.path # NoPath => (built[k].set = "SetMg" /\ built[k].inverted)

\* ---------------------------------------------------------------- C13
\* The state of the random generator n draws after the state s.
RECURSIVE Advance(_, _)
Advance(s, n) == IF n = 0 THEN s ELSE Advance(RandomNext(s), n - 1)

\* The stored params use no random rotation and no random offset.
NoRandomness ==
    _params._randomRot = 0 /\ _params._randomOffX = 0 /\ _params._randomOffZ = 0

\* C13 as stated: GenerateStack seeds the random generator anew, so a
\* successful GenerateStack that directly follows a successful GenerateStack
\* leaves the same _array, whatever the stored params.
C13_GenerateTwiceSameGrid ==
    [][ (op = "GenerateStack" /\ ret /\ op' = "GenerateStack" /\ ret')
            => _array' = _array ]_vars

\* C13 amended: InitStack seeds the random generator (a successful call
\* leaves it at the start of the sequence of the seed passed) and
\* GenerateStack does not: it leaves the generator 3 draws per item after
\* where it found it, and a successful GenerateStack that directly follows a
\* successful GenerateStack leaves the same _array when the stored params
\* use no randomness.
C13_InitStackReseeds ==
    [][ /\ (op' = "InitStack" /\ ret') => _random' = RandomInit(arg'._randomSeed)
        /\ (op' = "GenerateStack" /\ ret')
               => _random' = Advance(_random, 3 * ItemCount(_array'))
        /\ (op = "GenerateStack" /\ ret /\ op' = "GenerateStack" /\ ret' /\ NoRandomness)
               => _array' = _array ]_vars

\* A GenerateStack with random rotation and offsets has started from
\* another state of the random generator than the one InitStack left.
C13_Witness ==
    /\ op = "GenerateStack" /\ ret
    /\ ~NoRandomness
    /\ ItemCount(_array) >= 1
    /\ _random # Advance(RandomInit(_params._randomSeed), 3 * ItemCount(_array))

\* ---------------------------------------------------------------- C14
\* The number of items the loops handle before the item of cell c: those
\* of the rows before its row, and those before it in its row.
RECURSIVE ItemsBefore(_, _)
ItemsBefore(arr, c) ==
    IF c[1] = 0 THEN c[2] ELSE Len(arr[c[1]]) + ItemsBefore(arr, << c[1] - 1, c[2] >>)

\* The draw number j (from 0) of the random generator in state s.
Draw(s, j) == Get11(Advance(s, j))

\* The item of cell c of arr is the one made with the draws 3k, 3k+1 and
\* 3k+2 after the state start, k the number of items before it: the first
\* for the rotation, the two others for the offsets.
MadeOfDraws(arr, c, start) ==
    LET k  == ItemsBefore(arr, c)
        d1 == Draw(start, 3 * k)
        d2 == Draw(start, 3 * k + 1)
        d3 == Draw(start, 3 * k + 2)
    IN  IF _params._basePath # NoPath
        THEN ItemAt(arr, c) = SplineItem(_params, RelDistance(_params), c[1], c[2], d1, d2, d3)
        ELSE \E o \in {"xz", "zx"} :
                ItemAt(arr, c) = StraightItem(_params, Distance(_params), c[1], c[2], d1, d2, d3, o)

\* C14 as stated: a successful GenerateStack makes the item at place k of
\* the row-major order with the draws 3k .. 3k+2 counted from the last
\* seeding (InitStack with the stored _randomSeed), and leaves the random
\* generator 3 draws per item after the seeding.
C14_DrawsFromLastReseed ==
    [][ (op' = "GenerateStack" /\ ret') =>
            /\ \A c \in Cells(_array') :
                   MadeOfDraws(_array', c, RandomInit(_params._randomSeed))
            /\ _random' = Advance(RandomInit(_params._randomSeed), 3 * ItemCount(_array')) ]_vars

\* C14 amended: the same counted from the state of the random generator at
\* the start of the call.
C14_DrawsFromCallStart ==
    [][ (op' = "GenerateStack" /\ ret') =>
            /\ \A c \in Cells(_array') : MadeOfDraws(_array', c, _random)
            /\ _random' = Advance(_random, 3 * ItemCount(_array')) ]_vars

\* Two rows on the path spline made with random rotation and offsets.
C14_Witness ==
    /\ op = "GenerateStack" /\ ret
    /\ _params._basePath # NoPath
    /\ _params._randomRot # 0 /\ _params._randomOffX # 0 /\ _params._randomOffZ # 0
    /\ Len(_array) >= 2
    /\ ItemCount(_array) >= 3

\* ---------------------------------------------------------------- C15
\* C15: a GenerateStack call that returns false (not initialized, or the
\* spline length data could not be allocated or initialised) leaves every
\* matrix of _array as it was.
C15_FailedGenerateKeepsArray ==
    [][ (op' = "GenerateStack" /\ ~ret') => _array' = _array ]_vars

\* GenerateStack has failed on the spline length data of an initialized
\* generator with items.
C15_Witness ==
    /\ op = "GenerateStack" /\ ~ret
    /\ _initialized
    /\ _params._basePath # NoPath
    /\ ItemCount(_array) >= 1

\* ---------------------------------------------------------------- C16
\* C16 as stated: once a GenerateStack has run with no path spline stored,
\* the generator holds no spline length data.
C16_NoCacheWithoutCurve ==
    (op = "GenerateStack" /\ ret /\ _params._basePath = NoPath) => ~_splineLengthData

\* C16 amended: the spline length data are allocated by a GenerateStack of
\* an initialized generator with a path spline stored and by nothing else,
\* and once allocated they stay, whatever is stored and called later.
C16_CacheKeptOnceAllocated ==
    [][ /\ (~_splineLengthData /\ _splineLengthData')
            => (op' = "GenerateStack" /\ _initialized /\ _params._basePath # NoPath)
        /\ _splineLengthData => _splineLengthData' ]_vars

\* A GenerateStack without path spline has run and the spline length data
\* of an earlier one are still there.
C16_Witness ==
    /\ op = "GenerateStack" /\ ret
    /\ _params._basePath = NoPath
    /\ _splineLengthData

\* ---------------------------------------------------------------- C17
\* C17: when InitStack has returned true and no path spline is stored, a
\* GenerateStack called directly afterwards returns true.
C17_GenerateAfterInitSucceeds ==
    [][ (op = "InitStack" /\ ret /\ _params._basePath = NoPath /\ op' = "GenerateStack")
            => ret' ]_vars

\* ---------------------------------------------------------------- C18
\* C18: after a successful GenerateStack on a path spline with _baseCount
\* >= 2, the argument u of UniformToNatural of every item (rowIndex,
\* itemIndex) is (2 * itemIndex + rowIndex) / (2 * (_baseCount - 1)) and
\* lies in [0, 1].
C18_FractionWithinCurve ==
    (op = "GenerateStack" /\ ret /\ _params._basePath # NoPath /\ _params._baseCount >= 2) =>
        \A c \in Cells(_array) :
            LET u == ItemAt(_array, c).u
            IN  /\ 0 <= 2 * c[2] + c[1]
                /\ 2 * c[2] + c[1] <= 2 * (_params._baseCount - 1)
                /\ u = Float(2 * c[2] + c[1], 2 * (_params._baseCount - 1))
                /\ IsFinite(u)
                /\ 0 <= u.n
                /\ u.n <= u.d

\* A stack on the path spline with an item at the very end of the spline
\* and an item of a second row strictly inside.
C18_Witness ==
    /\ op = "GenerateStack" /\ ret
    /\ _params._basePath # NoPath /\ _params._baseCount >= 2
    /\ \E c \in Cells(_array) : ItemAt(_array, c).u = ToFloat(1)
    /\ \E c \in Cells(_array) :
          /\ c[1] >= 1
          /\ ItemAt(_array, c).u.n > 0
          /\ ItemAt(_array, c).u.n < ItemAt(_array, c).u.d
====
